---- MODULE Spec2Model ----
(***************************************************************************)
(* fabric-telemetry: the producer (data_server: snapshot generator,       *)
(* publish cache with conditional reads) and the consumer (metrics_server: *)
(* poller loop, snapshot store), as one state machine.                     *)
(*                                                                         *)
(* Text is a sequence of one-character strings, so that str(), int(),      *)
(* float() and the CSV codec are computed character by character.  A CSV   *)
(* text is the sequence of its records, each the sequence of its cells     *)
(* (no cell of the system holds a comma, a quote or a line break); a blank *)
(* line is the empty record.  Numeric values are fixed-point: raw random   *)
(* draws in thousandths, stored metric values in hundredths.               *)
(***************************************************************************)
EXTENDS Integers, Sequences, FiniteSets, TLC

\* ------------------------------------------------------------------ bounds
\* Highest version the generator threads publish in a run.
MaxVersion == 2
\* Cap of the consecutive-failure counter in a run.
MaxFail == 2
\* Number of create_app calls (each starts a generator thread) in a run.
MaxApps == 2
\* Ticks of one poll period (asyncio.sleep(poll_ms / 1000)).
PollTicks == 1

\* ------------------------------------------------------- program constants
\* config.py: number of simulated switches (environment, at least 1).
DATA_SWITCHES == 1

\* ------------------------------------------------------------------- text
\* The None object as a str | None value: different from every text.
None == <<"<None>">>

\* The None object as a Snapshot | None value.
NoSnapshot == [none |-> TRUE]

Digits == <<"0", "1", "2", "3", "4", "5", "6", "7", "8", "9">>

IsDigit(c) == \E i \in 1..10 : Digits[i] = c

DigitVal(c) == (CHOOSE i \in 1..10 : Digits[i] = c) - 1

\* bool(x) of a str | None value.
Truthy(s) == s # None /\ s # <<>>

\* str(n) of a non-negative int.
RECURSIVE str(_)
str(n) == IF n < 10 THEN <<Digits[n + 1]>> ELSE str(n \div 10) \o <<Digits[(n % 10) + 1]>>

\* The value of a non-empty run of digits.
RECURSIVE DigitsVal(_)
DigitsVal(s) == IF Len(s) = 0 THEN 0 ELSE 10 * DigitsVal(SubSeq(s, 1, Len(s) - 1)) + DigitVal(s[Len(s)])

AllDigits(s) == Len(s) > 0 /\ \A i \in 1..Len(s) : IsDigit(s[i])

HasSign(s) == Len(s) > 0 /\ s[1] \in {"+", "-"}

Unsigned(s) == IF HasSign(s) THEN Tail(s) ELSE s

Signed(s, v) == IF HasSign(s) /\ s[1] = "-" THEN 0 - v ELSE v

\* int(s): [ok, val]; ok = FALSE stands for ValueError.  Decimal literals
\* with an optional sign (no text of the model holds blanks or digit
\* separators).
int(s) == IF AllDigits(Unsigned(s)) THEN [ok |-> TRUE, val |-> Signed(s, DigitsVal(Unsigned(s)))] ELSE [ok |-> FALSE, val |-> 0]

\* Position of the first "." of s, 0 when there is none.
DotPos(s) == IF \E i \in 1..Len(s) : s[i] = "." THEN CHOOSE i \in 1..Len(s) : s[i] = "." /\ \A j \in 1..(i - 1) : s[j] # "." ELSE 0

\* Hundredths denoted by the fraction digits f (at most two).
FracVal(f) == IF Len(f) = 0 THEN 0 ELSE IF Len(f) = 1 THEN 10 * DigitVal(f[1]) ELSE DigitsVal(f)

\* float(s): [ok, val] with val in hundredths; ok = FALSE stands for
\* ValueError.  Plain decimal literals: optional sign, digits, optional "."
\* and up to two fraction digits, at least one digit in all.
float(s) ==
    LET u == Unsigned(s)
        d == DotPos(u)
        ip == IF d = 0 THEN u ELSE SubSeq(u, 1, d - 1)
        fp == IF d = 0 THEN <<>> ELSE SubSeq(u, d + 1, Len(u))
        wellFormed == /\ \A i \in 1..Len(ip) : IsDigit(ip[i])
                      /\ \A i \in 1..Len(fp) : IsDigit(fp[i])
                      /\ Len(ip) + Len(fp) > 0
                      /\ Len(fp) <= 2
    IN  IF wellFormed THEN [ok |-> TRUE, val |-> Signed(s, 100 * DigitsVal(ip) + FracVal(fp))] ELSE [ok |-> FALSE, val |-> 0]

float_repr_short(h) == str(h \div 100) \o <<".">> \o <<Digits[((h % 100) \div 10) + 1]>>

\* repr of a non-negative float holding h hundredths: "12.0", "12.5",
\* "12.34" (shortest text that reads back; csv.writer writes floats so).
float_repr(h) ==
    LET f == h % 100
    IN  str(h \div 100) \o <<".">> \o (IF f % 10 = 0 THEN <<Digits[(f \div 10) + 1]>> ELSE <<Digits[(f \div 10) + 1], Digits[(f % 10) + 1]>>)

\* ----------------------------------------------------------------- names
switch_id == <<"s", "w", "i", "t", "c", "h", "_", "i", "d">>
bandwidth_gbps == <<"b", "a", "n", "d", "w", "i", "d", "t", "h", "_", "g", "b", "p", "s">>
latency_us == <<"l", "a", "t", "e", "n", "c", "y", "_", "u", "s">>
packet_errors == <<"p", "a", "c", "k", "e", "t", "_", "e", "r", "r", "o", "r", "s">>
cpu_util_pct == <<"c", "p", "u", "_", "u", "t", "i", "l", "_", "p", "c", "t">>
mem_util_pct == <<"m", "e", "m", "_", "u", "t", "i", "l", "_", "p", "c", "t">>
buffer_occupancy_pct == <<"b", "u", "f", "f", "e", "r", "_", "o", "c", "c", "u", "p", "a", "n", "c", "y", "_", "p", "c", "t">>
egress_drops_per_s == <<"e", "g", "r", "e", "s", "s", "_", "d", "r", "o", "p", "s", "_", "p", "e", "r", "_", "s">>
temperature_c == <<"t", "e", "m", "p", "e", "r", "a", "t", "u", "r", "e", "_", "c">>

\* A dict is the sequence of its <<key, value>> items in insertion order.
DictKeys(d) == {d[i][1] : i \in 1..Len(d)}

DictGet(d, k) == d[CHOOSE i \in 1..Len(d) : d[i][1] = k][2]

\* d[k] = v
DictSet(d, k, v) == IF k \in DictKeys(d) THEN [i \in 1..Len(d) |-> IF d[i][1] = k THEN <<k, v>> ELSE d[i]] ELSE Append(d, <<k, v>>)

\* ------------------------------------------------- data_server/simulator.py
fields8 == <<bandwidth_gbps, latency_us, packet_errors, cpu_util_pct, mem_util_pct, buffer_occupancy_pct, egress_drops_per_s, temperature_c>>

Max(a, b) == IF a >= b THEN a ELSE b

Min(a, b) == IF a <= b THEN a ELSE b

\* f"{i:03d}"
Pad3(s) == IF Len(s) >= 3 THEN s ELSE IF Len(s) = 2 THEN <<"0">> \o s ELSE <<"0", "0">> \o s

_fmt_id(i) == <<"s", "w", "-">> \o Pad3(str(i))

\* math.exp(-lam) in thousandths, for the rates the generator uses
\* (0.6, and 1.0 to 1.5): a monotone table, linear between its entries.
exp_neg(lam) == IF lam <= 600 THEN 549 ELSE IF lam <= 1000 THEN 368 ELSE Max(223, 368 - ((lam - 1000) * 145) \div 500)

\* The while loop of _poisson_small: us are the successive random.random()
\* values (thousandths); when they run out the next one is 0.0, which ends
\* the loop.
RECURSIVE PoissonLoop(_, _, _, _)
PoissonLoop(L, us, k, p) == IF p > L THEN (IF Len(us) = 0 THEN k + 1 ELSE PoissonLoop(L, Tail(us), k + 1, (p * Head(us)) \div 1000)) ELSE k

_poisson_small(lam, us) == Max(0, PoissonLoop(exp_neg(lam), us, 0, 1000) - 1)

_clip_none(x, lo, hi) == x

_clip(x, lo, hi) == Max(lo, Min(hi, x))

\* round(x, 2) of a non-negative x in thousandths, as hundredths (a tie
\* goes to the even hundredth).
round2(x) ==
    LET q == x \div 10
        r == x % 10
    IN  IF r < 5 THEN q ELSE IF r > 5 THEN q + 1 ELSE IF q % 2 = 0 THEN q ELSE q + 1

\* One iteration of the per-switch loop of generate_snapshot; d holds the
\* values the random module returns (thousandths; pkt_i an int).
switch_row(d) ==
    LET bw == Max(0, d.bw_g)
        lat == IF d.lat_r < 30 THEN d.lat_u ELSE Max(1000, d.lat_g)
        pkt_errs == IF d.pkt_r < 10 THEN d.pkt_i ELSE _poisson_small(600, d.pkt_us)
        cpu == IF d.cpu_r < 50 THEN d.cpu_u ELSE _clip(d.cpu_g, 0, 100000)
        mem == _clip(d.mem_g, 0, 100000)
        buf == IF d.buf_r < 80 THEN d.buf_u ELSE _clip(d.buf_g, 0, 100000)
        drops == IF d.drop_r < 20 THEN d.drop_u ELSE 1000 * _poisson_small(1000 + (buf * 5) \div 1000, d.drop_us)
        temp == _clip(d.temp_g + (6 * cpu) \div 100, 30000, 90000)
    IN  (bandwidth_gbps :> round2(bw)) @@ (latency_us :> round2(lat)) @@ (packet_errors :> 100 * pkt_errs)
        @@ (cpu_util_pct :> round2(cpu)) @@ (mem_util_pct :> round2(mem)) @@ (buffer_occupancy_pct :> round2(buf))
        @@ (egress_drops_per_s :> round2(drops)) @@ (temperature_c :> round2(temp))

\* rows after the first i iterations of the loop.
RECURSIVE gen_rows(_, _)
gen_rows(i, draws) == IF i = 0 THEN <<>> ELSE DictSet(gen_rows(i - 1, draws), _fmt_id(i - 1), switch_row(draws[i]))

next_id_skip(prev_id) == prev_id + 2

\* generate_snapshot, line 36.
next_id(prev_id) == prev_id + 1

\* generate_snapshot(n_switches, prev_id); now is int(time() * 1000) and
\* draws[i] the random values of iteration i - 1.
generate_snapshot(n_switches, prev_id, now, draws) == <<next_id(prev_id), now, fields8, gen_rows(n_switches, draws)>>

\* --------------------------------------------------- data_server/app.py
\* _to_csv: the header record, then one record per row in dict order.
_to_csv(s) ==
    LET fields == s[3]
        rows == s[4]
    IN  <<(<<switch_id>> \o fields)>> \o [i \in 1..Len(rows) |-> <<rows[i][1]>> \o [k \in 1..Len(fields) |-> float_repr(rows[i][2][fields[k]])]]

\* A response: exc = TRUE stands for an exception raised by the request
\* (httpx.TransportError, timeout); headers maps header names to texts.
Response(status, headers, text) == [exc |-> FALSE, status |-> status, headers |-> headers, text |-> text]

NoHeaders == [k \in {} |-> <<>>]

\* headers.get(name, default)
HeadersGet(headers, name, default) == IF name \in DOMAIN headers THEN headers[name] ELSE default

\* jsonify({"error": "injected failure"})
injected_failure == << << <<"i", "n", "j", "e", "c", "t", "e", "d">> >> >>

\* config.py FAULT_500_PCT (environment, clamped to [0,100]): a setting
\* under which a request may and may not draw the injected failure.
FAULT_500_PCT == 50

\* random.randint(1, 100): one value at most and one above FAULT_500_PCT.
Rolls == {1, 100}

\* counters, lines 101-109: whether this request draws the injected 500.
inject_500(roll) == FAULT_500_PCT > 0 /\ roll <= FAULT_500_PCT

not_modified_any(inm, etag) == Truthy(inm)

\* counters, line 121: the If-None-Match test.
not_modified(inm, etag) == Truthy(inm) /\ inm = etag

SnapshotHeaders(etag, ts_ms) == ("ETag" :> etag) @@ ("X-Snapshot-Ts" :> str(ts_ms))

\* counters, lines 115-133, run with _lock held: the response to a request
\* whose If-None-Match header is inm (None when absent), from snapshot s.
counters(inm, s) ==
    LET etag == str(s[1])
    IN  IF not_modified(inm, etag) THEN Response(304, SnapshotHeaders(etag, s[2]), <<>>) ELSE Response(200, SnapshotHeaders(etag, s[2]), _to_csv(s))

\* ------------------------------------------------ metrics_server/poller.py
row_vals_shifted(fields, row) ==
    LET cell(idx) == IF idx <= Len(row) /\ idx >= 1 /\ float(row[idx]).ok THEN float(row[idx]).val ELSE 0
        last(name) == CHOOSE k \in 1..Len(fields) : fields[k] = name /\ \A j \in (k + 1)..Len(fields) : fields[j] # name
    IN  [name \in {fields[k] : k \in 1..Len(fields)} |-> cell(last(name))]

\* vals of one data row: float(row[1 + idx]) per field, 0.0 on ValueError
\* or IndexError; a repeated field name keeps its last column.
row_vals(fields, row) ==
    LET cell(idx) == IF 1 + idx <= Len(row) /\ float(row[1 + idx]).ok THEN float(row[1 + idx]).val ELSE 0
        last(name) == CHOOSE k \in 1..Len(fields) : fields[k] = name /\ \A j \in (k + 1)..Len(fields) : fields[j] # name
    IN  [name \in {fields[k] : k \in 1..Len(fields)} |-> cell(last(name))]

\* data after the first n records that follow the header.
RECURSIVE parse_rows(_, _, _)
parse_rows(fields, rest, n) ==
    IF n = 0 THEN <<>>
    ELSE IF Len(rest[n]) = 0 THEN parse_rows(fields, rest, n - 1)
    ELSE DictSet(parse_rows(fields, rest, n - 1), rest[n][1], row_vals(fields, rest[n]))

snapshot_id_of_zero(etag) == <<"0">>

\* etag or "0"
snapshot_id_of(etag) == IF Truthy(etag) THEN etag ELSE <<"0">>

\* Poller._parse_csv: [ok, snap]; ok = FALSE stands for the exception it
\* raises (ValueError of int() or of the header test, StopIteration of
\* next(reader) on an empty text).
_parse_csv(csv_text, headers) ==
    LET ts == int(HeadersGet(headers, "X-Snapshot-Ts", <<"0">>))
        etag == HeadersGet(headers, "ETag", <<>>)
        failed == [ok |-> FALSE, snap |-> NoSnapshot]
    IN  IF ~ts.ok THEN failed
        ELSE IF Len(csv_text) = 0 THEN failed
        ELSE IF Len(csv_text[1]) = 0 \/ csv_text[1][1] # switch_id THEN failed
        ELSE [ok |-> TRUE,
              snap |-> [meta |-> [snapshot_id |-> snapshot_id_of(etag), ts_ms |-> ts.val, fields |-> Tail(csv_text[1])],
                        data |-> parse_rows(Tail(csv_text[1]), Tail(csv_text), Len(csv_text) - 1)]]

\* The branches of the try block of Poller._run, on the poller's fields
\* p = [etag, fail_count, snap] and the response r.
on_304_forget(p) == [p EXCEPT !.etag = None]

\* line 49-51: 304.
on_304(p) == p

\* The snapshot a 200 response parses to.
Parsed(r) == _parse_csv(r.text, r.headers).snap

store_set_keep_first(old, snap) == IF old = NoSnapshot THEN snap ELSE old

store_set_mixed(old, snap) == IF old = NoSnapshot THEN snap ELSE [meta |-> snap.meta, data |-> old.data]

\* SnapshotStore.set, under the store's lock (never contended: no holder
\* of it awaits).
store_set(old, snap) == snap

on_exception_uncounted(p) == p

\* lines 64-69: except Exception.
on_exception(p) == [p EXCEPT !.fail_count = @ + 1]

\* lines 62-63: any other status.
on_other_status(p) == [p EXCEPT !.fail_count = @ + 1]

after_apply_keep_etag(p, r) == [p EXCEPT !.fail_count = 0]

\* lines 60-61, after store.set returned.
after_apply(p, r) == [p EXCEPT !.etag = HeadersGet(r.headers, "ETag", None), !.fail_count = 0]

on_200_etag_first(p, r) ==
    LET parsed == _parse_csv(r.text, r.headers)
        q == [p EXCEPT !.etag = HeadersGet(r.headers, "ETag", None)]
    IN  IF parsed.ok THEN [q EXCEPT !.snap = store_set(p.snap, parsed.snap), !.fail_count = 0] ELSE on_exception(q)

\* lines 52-61: 200.
on_200(p, r) ==
    LET parsed == _parse_csv(r.text, r.headers)
    IN  IF parsed.ok THEN after_apply([p EXCEPT !.snap = store_set(p.snap, parsed.snap)], r) ELSE on_exception(p)

\* lines 41-69: the try block from the point where the request returns.
run_cycle(p, r) ==
    IF r.exc THEN on_exception(p)
    ELSE IF r.status = 304 THEN on_304(p)
    ELSE IF r.status = 200 THEN on_200(p, r)
    ELSE on_other_status(p)

\* lines 42-44: the request headers of a cycle.
request_headers(etag) == IF Truthy(etag) THEN ("If-None-Match" :> etag) ELSE NoHeaders

resume_pc_raise(r) == IF r.exc THEN "done" ELSE "sleeping"

\* lines 64-86: no outcome r of a cycle leaves the loop; the finally block
\* ends in the sleep.
resume_pc(r) == "sleeping"

\* line 86: asyncio.sleep returns when the period has passed.
sleep_done(left) == left = 0

task_joined_skip(pc) == TRUE

\* Poller.stop, lines 30-31: await self._task returns when the task is done.
task_joined(pc) == pc = "done"

\* The outcome of the cycle that receives r, in the words of the
\* reconciler's state machine: Unchanged (304), Updated (200 that parses),
\* Failed (an exception of the request, another status, a parse error).
outcome(r) ==
    IF r.exc THEN "Failed"
    ELSE IF r.status = 304 THEN "Unchanged"
    ELSE IF r.status = 200 /\ _parse_csv(r.text, r.headers).ok THEN "Updated"
    ELSE "Failed"

\* --------------------------------------------------------------- inputs

\* What the random module returns in one iteration of generate_snapshot:
\* a draw on the base distributions, and one that spikes and clips.
DrawBase == [bw_g |-> 121337, lat_r |-> 500, lat_u |-> 75000, lat_g |-> 10204, pkt_r |-> 500, pkt_i |-> 7, pkt_us |-> <<700, 400>>,
             cpu_r |-> 500, cpu_u |-> 91000, cpu_g |-> 35125, mem_g |-> 61500, buf_r |-> 500, buf_u |-> 88000, buf_g |-> 30000,
             drop_r |-> 500, drop_u |-> 512345, drop_us |-> <<900, 900, 100>>, temp_g |-> 45000]

DrawSpike == [bw_g |-> -3000, lat_r |-> 10, lat_u |-> 75000, lat_g |-> 10204, pkt_r |-> 5, pkt_i |-> 7, pkt_us |-> <<>>,
              cpu_r |-> 20, cpu_u |-> 91000, cpu_g |-> 35125, mem_g |-> 104000, buf_r |-> 30, buf_u |-> 88000, buf_g |-> -2000,
              drop_r |-> 10, drop_u |-> 512345, drop_us |-> <<>>, temp_g |-> 95000]

\* What one generation reads from its environment: <<int(time() * 1000),
\* the random values of one iteration>> (every switch draws the same).
Generations == {<<1000, DrawBase>>, <<2000, DrawSpike>>}

\* If-None-Match of a request of another client: absent, empty, versions,
\* and a text that is no version.
ClientTokens == {None, <<>>} \cup {str(v) : v \in 0..MaxVersion} \cup {<<"0", "1">>}

\* int((time.time() - t0) * 1000) of a cycle.
CycleMs == {12}

\* What an upstream other than the producer (UPSTREAM_URL is configurable;
\* a proxy, an error page) can answer: an empty payload, a header record
\* without the id column, an unparsable timestamp header, a table with a
\* short row, a non-numeric cell and a blank line and no validator, a 404,
\* and a 304.
OtherHeader == << <<"i", "d">>, latency_us >>

OddTable == << <<switch_id, latency_us, cpu_util_pct>>,
               << <<"s", "w", "-", "0", "0", "7">>, <<"N", "a", "N", "t", "e", "x", "t">> >>,
               <<>>,
               << <<"s", "w", "-", "0", "0", "8">>, <<"1", ".", "5">>, <<"2">> >> >>

OtherResponses ==
    { Response(200, SnapshotHeaders(<<"9">>, 5), <<>>),
      Response(200, SnapshotHeaders(<<"9">>, 5), <<OtherHeader>>),
      Response(200, ("ETag" :> <<"9">>) @@ ("X-Snapshot-Ts" :> <<"n", "o", "w">>), <<<<switch_id, latency_us>>>>),
      Response(200, NoHeaders, OddTable),
      Response(404, NoHeaders, <<>>),
      Response(304, NoHeaders, <<>>) }

TransportError == [exc |-> TRUE, status |-> 0, headers |-> NoHeaders, text |-> <<>>]

\* ---------------------------------------------------------------- state
VARIABLES
    _snapshot,    \* data_server.app._snapshot: <<snapshot_id, ts_ms, fields, rows>>
    _lock,        \* data_server.app._lock: its holder, Free when unlocked
    n_apps,       \* create_app calls completed
    main_pc,      \* the thread calling create_app: "idle", "locked"
    gen,          \* gen[g]: generator thread g: "none", "idle", "locked"
    req,          \* req[h]: a request being served by counters: [pc, inm, resp]
    net,          \* the poller's request: [stage, headers, resp, match]; resp stays
                  \* until the next request, match is history: the token was the
                  \* producer's version when the producer handled the request
    _client,      \* Poller._client: "None", "open", "closed"
    _task,        \* Poller._task: "None", "Task"
    task_pc,      \* the _run task: "none", "ready", "fetching", "sleeping", "done"
    sleep_left,   \* ticks left of the task's asyncio.sleep
    _stopping,    \* Poller._stopping
    stop_pc,      \* Poller.stop: "idle", "joining", "closing", "returned"
    _etag,        \* Poller._etag
    fail_count,   \* Poller.fail_count
    last_cycle_ms, \* Poller.last_cycle_ms, -1 for None
    _snap,        \* SnapshotStore._snap
    cycle0,       \* history: [etag, fail_count, snap] when the running or last cycle began
    failed_run,   \* history: Failed cycles since the last Updated one
    store_lock,   \* SnapshotStore._lock: its holder, Free when unlocked
    setter,       \* the coroutine in SnapshotStore.set: [pc, snap]
    getter,       \* getter[r]: a coroutine in SnapshotStore.get or age_ms: [pc, op, s, age]
    last_set,     \* history: the argument of the latest completed set, NoSnapshot before it
    all_set,      \* history: the snapshots passed to set so far
    qry,          \* the response to the latest query: [status, body, failed_run], NoQuery before
                  \* it; failed_run is history: its value when the query was answered
    applied,      \* history: the snapshot of the latest cycle that ended Updated, NoSnapshot before it
    capacity,     \* RollingStats.capacity
    map,          \* RollingStats.map: key -> deque of latencies (whole ms), oldest first
    added,        \* history: added[key] is every latency added for key, in arrival order
    pct,          \* the latest percentiles call: [key, res, before, after], NoPercentiles
                  \* before it; before and after are history: the key's deque when the
                  \* call began and when it returned
    codec_pc,     \* where the codec's run stands: "idle", "generated", "serialized",
                  \* "received", "round_trip", "parsed"
    snapshot,     \* the Snapshot generate_snapshot returned: <<snapshot_id, ts_ms, fields, rows>>
    payload,      \* the response body: CSV text, one character per item
    parsed,       \* what _parse_csv made of payload: [ok, snap]
    loops,        \* loops[t]: the task of the t-th Poller.start call: "none", "ready",
                  \* "fetching", "sleeping", "done"
    latest,       \* the start call whose task Poller._task refers to, 0 before the first
    local         \* local[h]: the local variables of counters on connection h:
                  \* [s, etag, csv_text], s = <<sid, ts_ms, fields, rows>> of line 116

store_vars == <<store_lock, setter, getter, last_set, all_set>>

stats_vars == <<capacity, map, added, pct>>

codec_vars == <<codec_pc, snapshot, payload, parsed>>

life_vars == <<loops, latest>>

service_vars == <<store_vars, qry, applied, stats_vars, codec_vars, life_vars, local>>

\* The service's variables that the end of a poll cycle leaves alone.
cycle_frame == <<store_vars, qry, stats_vars, codec_vars, life_vars, local>>

\* The variables of the pipeline other than the store's slot.
pipeline_vars == <<_snapshot, _lock, n_apps, main_pc, gen, req, net, _client, _task, task_pc, sleep_left, _stopping, stop_pc, _etag, fail_count, last_cycle_ms, cycle0, failed_run>>

\* What the store's operations leave alone, the slot aside.
store_frame == <<pipeline_vars, qry, applied, stats_vars, codec_vars, life_vars, local>>

vars == <<_snapshot, _lock, n_apps, main_pc, gen, req, net, _client, _task, task_pc, sleep_left, _stopping, stop_pc, _etag, fail_count, last_cycle_ms, _snap, cycle0, failed_run, service_vars>>

producer_vars == <<_snapshot, _lock, n_apps, main_pc, gen>>

poller_vars == <<_client, _task, task_pc, sleep_left, _stopping, stop_pc, _etag, fail_count, last_cycle_ms, _snap, cycle0, failed_run>>

Free == <<"free", 0>>

\* The connections the producer serves at a time; the poller's is 1.
Conns == {1, 2}

IdleReq == [pc |-> "idle", inm |-> None, resp |-> TransportError]

NoReq == [stage |-> "none", headers |-> NoHeaders, resp |-> TransportError, match |-> FALSE]

\* A coroutine that is in no operation of the store.
Readers == {1, 2}

IdleSetter == [pc |-> "idle", snap |-> NoSnapshot]

NoAge == [none |-> TRUE, val |-> 0]

IdleGetter == [pc |-> "idle", op |-> "get", s |-> NoSnapshot, age |-> NoAge]

\* metrics_server/app.py, lines 32-35; SnapshotStore.__init__.
\* Poller.start calls.
MaxStarts == 2

\* RollingStats(capacity=...): capacities up to MaxCapacity (the service
\* passes 1000, app.py line 35).
MaxCapacity == 2

\* Adds over all keys.
MaxAdds == 3

\* Keys of the access logger: request paths.
StatKeys == {"/telemetry/GetMetric", "/telemetry/ListMetrics"}

\* latency_ms values.
Latencies == {1, 2, 3}

\* percentiles of an empty or unknown key, lines 16-17.
ZeroPercentiles == [p50 |-> 0, p95 |-> 0, p99 |-> 0, max |-> 0, count |-> 0]

NoPercentiles == [key |-> "", res |-> ZeroPercentiles, before |-> <<>>, after |-> <<>>]

NoQuery == [status |-> 0, body |-> [detail |-> ""], failed_run |-> 0]

\* The locals of a counters call that has not reached line 116.
NoLocals == [s |-> <<0, 0, <<>>, <<>>>>, etag |-> None, csv_text |-> <<>>]

ServiceInit ==
    /\ store_lock = Free
    /\ setter = IdleSetter
    /\ getter = [r \in Readers |-> IdleGetter]
    /\ last_set = NoSnapshot
    /\ all_set = {}
    /\ qry = NoQuery
    /\ applied = NoSnapshot
    /\ capacity = MaxCapacity
    /\ map = [k \in {} |-> <<>>]
    /\ added = [k \in StatKeys |-> <<>>]
    /\ pct = NoPercentiles
    /\ codec_pc = "idle"
    /\ snapshot = <<0, 0, <<>>, <<>>>>
    /\ payload = <<>>
    /\ parsed = [ok |-> FALSE, snap |-> NoSnapshot]
    /\ loops = [t \in 1..MaxStarts |-> "none"]
    /\ latest = 0
    /\ local = [h \in Conns |-> NoLocals]

Init ==
    /\ ServiceInit
    /\ _snapshot = <<0, 0, <<>>, <<>>>>
    /\ _lock = Free
    /\ n_apps = 0
    /\ main_pc = "idle"
    /\ gen = [g \in 1..MaxApps |-> "none"]
    /\ req = [h \in Conns |-> IdleReq]
    /\ net = NoReq
    /\ _client = "None"
    /\ _task = "None"
    /\ task_pc = "none"
    /\ sleep_left = 0
    /\ _stopping = FALSE
    /\ stop_pc = "idle"
    /\ _etag = None
    /\ fail_count = 0
    /\ last_cycle_ms = -1
    /\ _snap = NoSnapshot
    /\ cycle0 = [etag |-> None, fail_count |-> 0, snap |-> NoSnapshot]
    /\ failed_run = 0

\* ------------------------------------------------------------- producer
\* The assignment under _lock of create_app (line 88) and of
\* _generator_loop (line 52).
refresh(e) == generate_snapshot(DATA_SWITCHES, _snapshot[1], e[1], [i \in 1..DATA_SWITCHES |-> e[2]])

\* create_app, line 87: with _lock.
CreateAppAcquire ==
    /\ main_pc = "idle"
    /\ n_apps < MaxApps
    /\ _snapshot[1] < MaxVersion
    /\ _lock = Free
    /\ _lock' = <<"main", 0>>
    /\ main_pc' = "locked"
    /\ UNCHANGED <<_snapshot, n_apps, gen, req, net>>
    /\ UNCHANGED poller_vars
    /\ UNCHANGED service_vars

\* create_app, lines 88-94: the initial snapshot, then the generator thread.
CreateAppGenerate ==
    /\ main_pc = "locked"
    /\ \E e \in Generations : _snapshot' = refresh(e)
    /\ _lock' = Free
    /\ n_apps' = n_apps + 1
    /\ gen' = [gen EXCEPT ![n_apps + 1] = "idle"]
    /\ main_pc' = "idle"
    /\ UNCHANGED <<req, net>>
    /\ UNCHANGED poller_vars
    /\ UNCHANGED service_vars

\* _generator_loop, line 51: with _lock (after the wait of line 68).
GenAcquire(g) ==
    /\ gen[g] = "idle"
    /\ _snapshot[1] < MaxVersion
    /\ _lock = Free
    /\ _lock' = <<"gen", g>>
    /\ gen' = [gen EXCEPT ![g] = "locked"]
    /\ UNCHANGED <<_snapshot, n_apps, main_pc, req, net>>
    /\ UNCHANGED poller_vars
    /\ UNCHANGED service_vars

\* _generator_loop, lines 52-68.
GenRefresh(g) ==
    /\ gen[g] = "locked"
    /\ \E e \in Generations : _snapshot' = refresh(e)
    /\ _lock' = Free
    /\ gen' = [gen EXCEPT ![g] = "idle"]
    /\ UNCHANGED <<n_apps, main_pc, req, net>>
    /\ UNCHANGED poller_vars
    /\ UNCHANGED service_vars

\* counters, lines 99-113, of a request with If-None-Match inm: it answers
\* the injected 500 or goes on to take _lock.
Accepted(h, inm, roll) == [req EXCEPT ![h] = IF inject_500(roll) THEN [pc |-> "done", inm |-> inm, resp |-> Response(500, NoHeaders, injected_failure)] ELSE [pc |-> "accepted", inm |-> inm, resp |-> TransportError]]

\* A request of some client arrives on connection h.
ClientRequest(h) ==
    /\ n_apps > 0
    /\ req[h].pc = "idle"
    /\ \E inm \in ClientTokens, roll \in Rolls : req' = Accepted(h, inm, roll)
    /\ UNCHANGED <<producer_vars, net>>
    /\ UNCHANGED poller_vars
    /\ UNCHANGED service_vars

\* The client of connection h receives its response.
ClientReply(h) ==
    /\ req[h].pc = "done"
    /\ req' = [req EXCEPT ![h] = IdleReq]
    /\ UNCHANGED <<producer_vars, net>>
    /\ UNCHANGED poller_vars
    /\ UNCHANGED service_vars

\* counters, line 115: with _lock.
CountersAcquire(h) ==
    /\ req[h].pc = "accepted"
    /\ _lock = Free
    /\ _lock' = <<"req", h>>
    /\ req' = [req EXCEPT ![h].pc = "locked"]
    /\ UNCHANGED <<_snapshot, n_apps, main_pc, gen, net>>
    /\ UNCHANGED poller_vars
    /\ UNCHANGED service_vars

\* counters, lines 116-147.
CountersRespond(h) ==
    /\ req[h].pc = "locked"
    /\ req' = [req EXCEPT ![h].pc = "done", ![h].resp = counters(req[h].inm, _snapshot)]
    /\ _lock' = Free
    /\ net' = IF h = 1 /\ net.stage = "serving" THEN [net EXCEPT !.match = (req[h].inm = str(_snapshot[1]))] ELSE net
    /\ UNCHANGED <<_snapshot, n_apps, main_pc, gen>>
    /\ UNCHANGED poller_vars
    /\ UNCHANGED service_vars

\* -------------------------------------------------------------- network
\* The failure counter is capped: a response whose cycle fails is produced
\* only below the cap.

\* The poller's request reaches the producer.
NetDeliver ==
    /\ net.stage = "request"
    /\ n_apps > 0
    /\ req[1].pc = "idle"
    /\ \E roll \in Rolls :
        /\ inject_500(roll) => fail_count < MaxFail
        /\ req' = Accepted(1, HeadersGet(net.headers, "If-None-Match", None), roll)
    /\ net' = [net EXCEPT !.stage = "serving", !.match = (HeadersGet(net.headers, "If-None-Match", None) = str(_snapshot[1]))]
    /\ UNCHANGED producer_vars
    /\ UNCHANGED poller_vars
    /\ UNCHANGED service_vars

\* The producer's response reaches the poller (or nobody, when the request
\* has failed meanwhile).
NetReply ==
    /\ req[1].pc = "done"
    /\ req' = [req EXCEPT ![1] = IdleReq]
    /\ net' = IF net.stage = "serving" THEN [net EXCEPT !.stage = "response", !.resp = req[1].resp] ELSE net
    /\ UNCHANGED producer_vars
    /\ UNCHANGED poller_vars
    /\ UNCHANGED service_vars

\* The request fails: no connection, or no response within the client's
\* timeout (httpx.AsyncClient(timeout=5.0)).
NetError ==
    /\ net.stage \in {"request", "serving"}
    /\ fail_count < MaxFail
    /\ net' = [net EXCEPT !.stage = "response", !.resp = TransportError]
    /\ UNCHANGED <<producer_vars, req>>
    /\ UNCHANGED poller_vars
    /\ UNCHANGED service_vars

\* The responses of OtherResponses whose cycle fails.
FailingOther == {r \in OtherResponses : outcome(r) = "Failed"}

\* The request is answered by something else than the producer.
NetOther ==
    /\ net.stage = "request"
    /\ \E r \in OtherResponses :
        /\ r \in FailingOther => fail_count < MaxFail
        /\ net' = [net EXCEPT !.stage = "response", !.resp = r]
    /\ UNCHANGED <<producer_vars, req>>
    /\ UNCHANGED poller_vars
    /\ UNCHANGED service_vars

\* --------------------------------------------------------------- poller
\* app._startup: Poller.start, lines 25-26.
Startup ==
    /\ _task = "None"
    /\ _client' = "open"
    /\ _task' = "Task"
    /\ task_pc' = "ready"
    /\ UNCHANGED <<producer_vars, req, net>>
    /\ UNCHANGED <<sleep_left, _stopping, stop_pc, _etag, fail_count, last_cycle_ms, _snap, cycle0, failed_run>>
    /\ UNCHANGED service_vars

\* Poller._run, lines 37-45: the loop test, then the request.  A request on
\* a closed client raises at once.
RunLoopTop ==
    /\ task_pc = "ready" \/ (task_pc = "sleeping" /\ sleep_done(sleep_left))
    /\ IF _stopping
       THEN /\ task_pc' = "done"
            /\ UNCHANGED <<net, cycle0>>
       ELSE /\ task_pc' = "fetching"
            /\ cycle0' = [etag |-> _etag, fail_count |-> fail_count, snap |-> _snap]
            /\ net' = IF _client = "open"
                      THEN [stage |-> "request", headers |-> request_headers(_etag), resp |-> TransportError, match |-> FALSE]
                      ELSE [stage |-> "response", headers |-> request_headers(_etag), resp |-> TransportError, match |-> FALSE]
    /\ UNCHANGED <<producer_vars, req>>
    /\ UNCHANGED <<_client, _task, sleep_left, _stopping, stop_pc, _etag, fail_count, last_cycle_ms, _snap, failed_run>>
    /\ UNCHANGED service_vars

\* Poller._run, lines 46-86: from the response to the sleep.
RunResume ==
    /\ task_pc = "fetching"
    /\ net.stage = "response"
    /\ LET p == run_cycle([etag |-> _etag, fail_count |-> fail_count, snap |-> _snap], net.resp)
       IN  /\ _etag' = p.etag
           /\ fail_count' = p.fail_count
           /\ _snap' = p.snap
           /\ failed_run' = IF outcome(net.resp) = "Failed" THEN failed_run + 1 ELSE IF outcome(net.resp) = "Updated" THEN 0 ELSE failed_run
    /\ \E ms \in CycleMs : last_cycle_ms' = ms
    /\ net' = [net EXCEPT !.stage = "consumed"]
    /\ task_pc' = resume_pc(net.resp)
    /\ sleep_left' = PollTicks
    /\ UNCHANGED <<producer_vars, req>>
    /\ UNCHANGED <<_client, _task, _stopping, stop_pc, cycle0>>
    /\ applied' = IF outcome(net.resp) = "Updated" THEN Parsed(net.resp) ELSE applied
    /\ UNCHANGED cycle_frame

\* Time passes while the task sleeps (line 86).
Tick ==
    /\ task_pc = "sleeping"
    /\ sleep_left > 0
    /\ sleep_left' = sleep_left - 1
    /\ UNCHANGED <<producer_vars, req, net>>
    /\ UNCHANGED <<_client, _task, task_pc, _stopping, stop_pc, _etag, fail_count, last_cycle_ms, _snap, cycle0, failed_run>>
    /\ UNCHANGED service_vars

\* app._shutdown: Poller.stop, lines 29-31.
StopBegin ==
    /\ _task = "Task"
    /\ stop_pc = "idle"
    /\ _stopping' = TRUE
    /\ stop_pc' = "joining"
    /\ UNCHANGED <<producer_vars, req, net>>
    /\ UNCHANGED <<_client, _task, task_pc, sleep_left, _etag, fail_count, last_cycle_ms, _snap, cycle0, failed_run>>
    /\ UNCHANGED service_vars

\* Poller.stop, lines 31-33: the task is done; aclose() is called.
StopClose ==
    /\ stop_pc = "joining"
    /\ task_joined(task_pc)
    /\ _client' = "closed"
    /\ stop_pc' = "closing"
    /\ UNCHANGED <<producer_vars, req, net>>
    /\ UNCHANGED <<_task, task_pc, sleep_left, _stopping, _etag, fail_count, last_cycle_ms, _snap, cycle0, failed_run>>
    /\ UNCHANGED service_vars

\* Poller.stop returns.
StopReturn ==
    /\ stop_pc = "closing"
    /\ stop_pc' = "returned"
    /\ UNCHANGED <<producer_vars, req, net>>
    /\ UNCHANGED <<_client, _task, task_pc, sleep_left, _stopping, _etag, fail_count, last_cycle_ms, _snap, cycle0, failed_run>>
    /\ UNCHANGED service_vars

\* ---------------------------------------------------------- specification
\* The pipeline: the producer serving the poller.
Next ==
    \/ CreateAppAcquire
    \/ CreateAppGenerate
    \/ \E g \in 1..MaxApps : GenAcquire(g)
    \/ \E g \in 1..MaxApps : GenRefresh(g)
    \/ \E h \in Conns : CountersAcquire(h)
    \/ \E h \in Conns : CountersRespond(h)
    \/ NetDeliver
    \/ NetReply
    \/ NetError
    \/ NetOther
    \/ Startup
    \/ RunLoopTop
    \/ RunResume
    \/ Tick
    \/ StopBegin
    \/ StopClose
    \/ StopReturn

Spec == Init /\ [][Next]_vars

\* Scheduling.  The event loop runs the _run task whenever it can run (at
\* its loop test, with its response there) and fires its timer; it runs
\* stop past its await; a request ends, with a response or by the client's
\* timeout; a producer thread that holds _lock, or that can take it to
\* serve the poller's request, goes on.  Weak fairness of the steps that
\* compute a payload is written out, []<>(~ready) \/ []<><<step>>_vars,
\* with the condition under which the step can be taken.
TaskStep == RunLoopTop \/ RunResume \/ Tick

TaskReady ==
    \/ task_pc = "ready"
    \/ task_pc = "sleeping" /\ (sleep_left > 0 \/ sleep_done(sleep_left))
    \/ task_pc = "fetching" /\ net.stage = "response"

TaskFair == []<>(~TaskReady) \/ []<><<TaskStep>>_vars

StopStep == StopClose \/ StopReturn

NetStep == NetDeliver \/ NetOther \/ NetError \/ NetReply

ProducerStep == CountersAcquire(1) \/ CountersRespond(1) \/ CreateAppGenerate \/ \E g \in 1..MaxApps : GenRefresh(g)

ProducerReady ==
    \/ req[1].pc = "accepted" /\ _lock = Free
    \/ req[1].pc = "locked"
    \/ main_pc = "locked"
    \/ \E g \in 1..MaxApps : gen[g] = "locked"

ProducerFair == []<>(~ProducerReady) \/ []<><<ProducerStep>>_vars

Fairness ==
    /\ TaskFair
    /\ WF_vars(StopStep)
    /\ WF_vars(NetStep)
    /\ ProducerFair

FairSpec == Spec /\ Fairness

\* The producer serving any clients: requests with any If-None-Match on
\* every connection, beside the generator threads.
ProducerNext ==
    \/ CreateAppAcquire
    \/ CreateAppGenerate
    \/ \E g \in 1..MaxApps : GenAcquire(g)
    \/ \E g \in 1..MaxApps : GenRefresh(g)
    \/ \E h \in Conns : ClientRequest(h)
    \/ \E h \in Conns : ClientReply(h)
    \/ \E h \in Conns : CountersAcquire(h)
    \/ \E h \in Conns : CountersRespond(h)

ProducerSpec == Init /\ [][ProducerNext]_vars

\* ------------------------------------ counters, statement by statement
\* The handler of the read endpoint beside the generator threads, one step
\* per shared access: line 116 reads the global _snapshot into locals,
\* line 128 reads the global again for the body, and lines 130-133 build
\* the response from the locals after the with block has ended.
serve_frame == <<n_apps, main_pc, gen, net, poller_vars, store_vars, qry, applied, stats_vars, codec_vars, life_vars>>

with_lock_short(h) == Free

\* The holder of _lock while the body of the with block of counters runs
\* (lines 115-128): the thread of the request.
with_lock(h) == <<"req", h>>

\* counters, lines 116-126: the locals, the If-None-Match test and the 304
\* response, which leaves the with block.
CountersRead(h) ==
    /\ req[h].pc = "locked"
    /\ LET s == _snapshot
           etag == str(s[1])
       IN  /\ local' = [local EXCEPT ![h] = [s |-> s, etag |-> etag, csv_text |-> <<>>]]
           /\ IF not_modified(req[h].inm, etag)
              THEN /\ req' = [req EXCEPT ![h].pc = "done", ![h].resp = Response(304, SnapshotHeaders(etag, s[2]), <<>>)]
                   /\ _lock' = Free
              ELSE /\ req' = [req EXCEPT ![h].pc = "read"]
                   /\ _lock' = with_lock(h)
    /\ UNCHANGED <<_snapshot, serve_frame>>

\* counters, line 128: csv_text = _to_csv(_snapshot), of the global; the
\* with block ends and its holder releases _lock.
CountersCsv(h) ==
    /\ req[h].pc = "read"
    /\ local' = [local EXCEPT ![h].csv_text = _to_csv(_snapshot)]
    /\ _lock' = IF _lock = with_lock(h) THEN Free ELSE _lock
    /\ req' = [req EXCEPT ![h].pc = "serialized"]
    /\ UNCHANGED <<_snapshot, serve_frame>>

\* counters, lines 130-147: the 200 response, from the locals.
CountersReturn(h) ==
    /\ req[h].pc = "serialized"
    /\ req' = [req EXCEPT ![h].pc = "done", ![h].resp = Response(200, SnapshotHeaders(local[h].etag, local[h].s[2]), local[h].csv_text)]
    /\ UNCHANGED <<_snapshot, _lock, local, serve_frame>>

\* The client of connection h receives its response; the locals of the
\* call are gone.
CountersReply(h) ==
    /\ req[h].pc = "done"
    /\ req' = [req EXCEPT ![h] = IdleReq]
    /\ local' = [local EXCEPT ![h] = NoLocals]
    /\ UNCHANGED <<_snapshot, _lock, serve_frame>>

ServeNext ==
    \/ CreateAppAcquire
    \/ CreateAppGenerate
    \/ \E g \in 1..MaxApps : GenAcquire(g)
    \/ \E g \in 1..MaxApps : GenRefresh(g)
    \/ \E h \in Conns : ClientRequest(h)
    \/ \E h \in Conns : CountersReply(h)
    \/ \E h \in Conns : CountersAcquire(h)
    \/ \E h \in Conns : CountersRead(h)
    \/ \E h \in Conns : CountersCsv(h)
    \/ \E h \in Conns : CountersReturn(h)

ServeSpec == Init /\ [][ServeNext]_vars

\* ------------------------------------------------ metrics_server/store.py
\* The store under its callers, one step per line of set and get: the
\* writer (Poller._run, line 58) and readers (the query handlers and the
\* access logger of app.py), each stopping where the code can wait for
\* the lock.

\* Snapshots the poller passes to set: what it parses from the producer's
\* first snapshot, drawn either way, and from a table with a short row, a
\* bad cell and a blank line.
StoreSnaps ==
    {Parsed(counters(None, generate_snapshot(DATA_SWITCHES, 0, e[1], [i \in 1..DATA_SWITCHES |-> e[2]]))) : e \in Generations}
    \cup {Parsed(Response(200, NoHeaders, OddTable))}

\* int(time.time() * 1000) when age_ms is computed.
Nows == {3000}

\* SnapshotStore.get, line 29, with the lock held.
store_get(slot) == slot

\* SnapshotStore.age_ms, lines 33-35, of the snapshot s that get returned.
age_ms(s, now) == IF s = NoSnapshot THEN NoAge ELSE [none |-> FALSE, val |-> now - s.meta.ts_ms]

\* Poller._run, line 58: store.set(snap) is called.
SetCall ==
    /\ setter.pc = "idle"
    /\ \E snap \in StoreSnaps :
        /\ setter' = [pc |-> "called", snap |-> snap]
        /\ all_set' = all_set \cup {snap}
    /\ UNCHANGED <<store_frame, _snap, store_lock, getter, last_set>>

\* SnapshotStore.set, line 22: async with self._lock.
SetAcquire ==
    /\ setter.pc = "called"
    /\ store_lock = Free
    /\ store_lock' = <<"set", 0>>
    /\ setter' = [setter EXCEPT !.pc = "locked"]
    /\ UNCHANGED <<store_frame, _snap, getter, last_set, all_set>>

\* SnapshotStore.set, line 23, and the release of the lock.
SetAssign ==
    /\ setter.pc = "locked"
    /\ _snap' = store_set(_snap, setter.snap)
    /\ last_set' = setter.snap
    /\ store_lock' = Free
    /\ setter' = IdleSetter
    /\ UNCHANGED <<store_frame, getter, all_set>>

\* A reader calls get (app.py line 84) or age_ms (line 49).
GetCall(r) ==
    /\ getter[r].pc \in {"idle", "returned"}
    /\ \E op \in {"get", "age_ms"} : getter' = [getter EXCEPT ![r] = [IdleGetter EXCEPT !.pc = "called", !.op = op]]
    /\ UNCHANGED <<store_frame, _snap, store_lock, setter, last_set, all_set>>

\* SnapshotStore.get, line 28: async with self._lock.
GetAcquire(r) ==
    /\ getter[r].pc = "called"
    /\ store_lock = Free
    /\ store_lock' = <<"get", r>>
    /\ getter' = [getter EXCEPT ![r].pc = "locked"]
    /\ UNCHANGED <<store_frame, _snap, setter, last_set, all_set>>

\* SnapshotStore.get, line 29, the release of the lock, and for age_ms
\* lines 33-35.
GetReturn(r) ==
    /\ getter[r].pc = "locked"
    /\ store_lock' = Free
    /\ \E now \in Nows :
        getter' = [getter EXCEPT ![r].pc = "returned", ![r].s = store_get(_snap),
                                 ![r].age = IF getter[r].op = "age_ms" THEN age_ms(store_get(_snap), now) ELSE NoAge]
    /\ UNCHANGED <<store_frame, _snap, setter, last_set, all_set>>

StoreNext ==
    \/ SetCall
    \/ SetAcquire
    \/ SetAssign
    \/ \E r \in Readers : GetCall(r)
    \/ \E r \in Readers : GetAcquire(r)
    \/ \E r \in Readers : GetReturn(r)

StoreSpec == Init /\ [][StoreNext]_vars

\* -------------------------------------------------- metrics_server/app.py
\* raise HTTPException(status_code, detail): the JSON body {"detail": ...}.
HTTPException(status_code, detail) == [status |-> status_code, body |-> [detail |-> detail]]

JSONResponse(resp) == [status |-> 200, body |-> resp]

\* _staleness, lines 89-90.
_staleness(ts_ms, now) == now - ts_ms

_current_snapshot_unavailable(s) == NoSnapshot

\* _current_snapshot, lines 83-87, of the value s that store.get returned:
\* NoSnapshot stands for the 503 it raises.
_current_snapshot(s) == s

\* get_metric, lines 93-114, on the value slot that store.get returns.
get_metric(slot, sw, m, now) ==
    LET s == _current_snapshot(slot)
    IN  IF s = NoSnapshot THEN HTTPException(503, "No data yet")
        ELSE IF sw \notin DictKeys(s.data) THEN HTTPException(404, "Unknown switch_id")
        ELSE IF m \notin {s.meta.fields[k] : k \in 1..Len(s.meta.fields)} THEN HTTPException(404, "Unknown metric")
        ELSE JSONResponse([switch_id |-> sw, metric |-> m, value |-> DictGet(s.data, sw)[m],
                           snapshot_id |-> s.meta.snapshot_id, age_ms |-> _staleness(s.meta.ts_ms, now)])

\* list_metrics, lines 116-131: items holds one <<switch_id, vals>> per row.
list_metrics(slot, now) ==
    LET s == _current_snapshot(slot)
    IN  IF s = NoSnapshot THEN HTTPException(503, "No data yet")
        ELSE JSONResponse([snapshot_id |-> s.meta.snapshot_id, age_ms |-> _staleness(s.meta.ts_ms, now),
                           fields |-> s.meta.fields, items |-> s.data])

\* Query parameters: a switch the producer reports, one only the odd table
\* has, one nobody has; a metric of both and one of neither.
QuerySwitches == {_fmt_id(0), <<"s", "w", "-", "0", "0", "8">>, <<"s", "w", "-", "x">>}

QueryMetrics == {latency_us, <<"n", "o", "p", "e">>}

\* What a producer answers to the poller's request, whatever snapshot it
\* holds: counters on each snapshot generate_snapshot can have installed.
ProducerSnapshots == {generate_snapshot(DATA_SWITCHES, v - 1, e[1], [i \in 1..DATA_SWITCHES |-> e[2]]) : v \in 1..MaxVersion, e \in Generations}

\* The request is answered by a producer (counters, lines 115-133).
NetProducer ==
    /\ net.stage = "request"
    /\ \E s \in ProducerSnapshots :
        LET r == counters(HeadersGet(net.headers, "If-None-Match", None), s)
        IN  net' = [net EXCEPT !.stage = "response", !.resp = r, !.match = (r.status = 304)]
    /\ UNCHANGED <<producer_vars, req>>
    /\ UNCHANGED poller_vars
    /\ UNCHANGED service_vars

\* What a query handler leaves alone.
query_frame == <<producer_vars, req, net, poller_vars, store_vars, applied, stats_vars, codec_vars, life_vars, local>>

\* The response r as qry records it.
Answered(r) == [status |-> r.status, body |-> r.body, failed_run |-> failed_run]

\* GET /telemetry/GetMetric: the handler runs without giving up the event
\* loop (store.get finds its lock free).
GetMetric ==
    /\ \E sw \in QuerySwitches, m \in QueryMetrics, now \in Nows : qry' = Answered(get_metric(store_get(_snap), sw, m, now))
    /\ UNCHANGED query_frame

\* GET /telemetry/ListMetrics.
ListMetrics ==
    /\ \E now \in Nows : qry' = Answered(list_metrics(store_get(_snap), now))
    /\ UNCHANGED query_frame

QueryNext ==
    \/ Startup
    \/ RunLoopTop
    \/ NetProducer
    \/ NetOther
    \/ NetError
    \/ RunResume
    \/ Tick
    \/ GetMetric
    \/ ListMetrics

QuerySpec == Init /\ [][QueryNext]_vars

\* ------------------------------------------------ metrics_server/stats.py
deque_append_unbounded(dq, x, maxlen) == Append(dq, x)

\* deque(maxlen=maxlen).append(x): a full deque drops its oldest item.
deque_append(dq, x, maxlen) ==
    IF maxlen = 0 THEN dq
    ELSE IF Len(dq) = maxlen THEN Append(Tail(dq), x)
    ELSE Append(dq, x)

\* self.map.get(key, deque())
map_get(m, key) == IF key \in DOMAIN m THEN m[key] ELSE <<>>

\* RollingStats.add, lines 10-12: the map after add(key, latency_ms).
add(m, cap, key, latency_ms) ==
    [k \in DOMAIN m \cup {key} |-> IF k = key THEN deque_append(map_get(m, key), latency_ms, cap) ELSE m[k]]

unsorted(dq) == dq

\* sorted(dq), line 18: a new list, ascending.
sorted(dq) == SortSeq(dq, LAMBDA a, b : a < b)

\* math.ceil(p * n) for p given in hundredths; the float product rounds to
\* the same integer as the exact one for every n up to 100000.
ceil_of(p, n) == (p * n + 99) \div 100

pick_floor(arr, p) == arr[Max(0, Min(Len(arr) - 1, (p * Len(arr)) \div 100 - 1)) + 1]

\* pick, lines 21-25, for a list arr that is not empty (indexes from 0 in
\* the code, from 1 here).
pick(arr, p) == arr[Max(0, Min(Len(arr) - 1, ceil_of(p, Len(arr)) - 1)) + 1]

\* RollingStats.percentiles, lines 14-33, on the deque dq of the key.
percentiles(dq) ==
    IF Len(dq) = 0 THEN ZeroPercentiles
    ELSE LET arr == sorted(dq)
         IN  [p50 |-> pick(arr, 50), p95 |-> pick(arr, 95), p99 |-> pick(arr, 99), max |-> arr[Len(arr)], count |-> Len(arr)]

\* What RollingStats leaves alone.
stats_frame == <<pipeline_vars, _snap, store_vars, qry, applied, codec_vars, life_vars, local>>

\* Adds so far, over all keys.
RECURSIVE TotalAdds(_, _)
TotalAdds(h, keys) == IF keys = {} THEN 0 ELSE LET k == CHOOSE k \in keys : TRUE IN Len(h[k]) + TotalAdds(h, keys \ {k})

\* RollingStats.__init__, lines 6-8: the object built with another capacity
\* (before its first use).
NewStats ==
    /\ TotalAdds(added, StatKeys) = 0
    /\ \E n \in 0..MaxCapacity : capacity' = n
    /\ map' = [k \in {} |-> <<>>]
    /\ UNCHANGED <<stats_frame, added, pct>>

\* stats.add(path, latency_ms), app.py line 46.
Add(key) ==
    /\ TotalAdds(added, StatKeys) < MaxAdds
    /\ \E latency_ms \in Latencies :
        /\ map' = add(map, capacity, key, latency_ms)
        /\ added' = [added EXCEPT ![key] = Append(@, latency_ms)]
    /\ UNCHANGED <<stats_frame, capacity, pct>>

\* stats.percentiles(key), app.py lines 138-139.
Percentiles(key) ==
    /\ map' = map
    /\ pct' = [key |-> key, res |-> percentiles(map_get(map, key)), before |-> map_get(map, key), after |-> map_get(map', key)]
    /\ UNCHANGED <<stats_frame, capacity, added>>

StatsNext ==
    \/ NewStats
    \/ \E key \in StatKeys : Add(key)
    \/ \E key \in StatKeys : Percentiles(key)

StatsSpec == Init /\ [][StatsNext]_vars

\* ------------------------------------------------------ the tabular codec
\* csv.writer and csv.reader (dialect excel: delimiter ",", quotechar '"',
\* lineterminator "\r\n", QUOTE_MINIMAL), on text kept one character per
\* item.

\* A field that the writer must quote.
needs_quote(cell) == \E i \in 1..Len(cell) : cell[i] \in {",", "\"", "\r", "\n"}

\* The field with every quote character written twice.
RECURSIVE doubled(_)
doubled(cell) == IF Len(cell) = 0 THEN <<>> ELSE (IF Head(cell) = "\"" THEN <<"\"", "\"">> ELSE <<Head(cell)>>) \o doubled(Tail(cell))

write_field(cell) == IF needs_quote(cell) THEN <<"\"">> \o doubled(cell) \o <<"\"">> ELSE cell

\* The fields of a record joined by the delimiter.
RECURSIVE join_fields(_)
join_fields(cells) == IF Len(cells) = 0 THEN <<>> ELSE IF Len(cells) = 1 THEN write_field(cells[1]) ELSE write_field(cells[1]) \o <<",">> \o join_fields(Tail(cells))

\* w.writerow(cells): the text it adds to the buffer (a record of one
\* empty field is written as a pair of quotes).
writerow(cells) == (IF cells = <<<<>>>> THEN <<"\"", "\"">> ELSE join_fields(cells)) \o <<"\r", "\n">>

\* buf.getvalue() after w.writerow(record) for each record, _to_csv lines
\* 73-78.
RECURSIVE getvalue(_)
getvalue(records) == IF Len(records) = 0 THEN <<>> ELSE writerow(Head(records)) \o getvalue(Tail(records))

\* The pieces of text between the occurrences of the character c.
split(text, c) ==
    LET P == {i \in 1..Len(text) : text[i] = c}
        n == Cardinality(P)
        pos(k) == IF k = 0 THEN 0 ELSE IF k = n + 1 THEN Len(text) + 1 ELSE CHOOSE q \in P : Cardinality({r \in P : r < q}) = k - 1
    IN  [k \in 1..(n + 1) |-> SubSeq(text, pos(k - 1) + 1, pos(k) - 1)]

\* The lines io.StringIO(text) yields, without their line ends.
lines_of(text) ==
    LET parts == split(text, "\n")
        kept == IF Len(parts[Len(parts)]) = 0 THEN SubSeq(parts, 1, Len(parts) - 1) ELSE parts
    IN  [k \in 1..Len(kept) |-> IF Len(kept[k]) > 0 /\ kept[k][Len(kept[k])] = "\r" THEN SubSeq(kept[k], 1, Len(kept[k]) - 1) ELSE kept[k]]

\* csv.reader(io.StringIO(text)), poller.py line 91: one record per line,
\* the empty record for an empty line (texts without quote characters).
csv_reader(text) == [k \in 1..Len(lines_of(text)) |-> IF Len(lines_of(text)[k]) = 0 THEN <<>> ELSE split(lines_of(text)[k], ",")]

\* ------------------------------------------------------- codec: the inputs
\* Switches of a generated snapshot (DATA_SWITCHES of config.py is any
\* non-negative setting).
MaxSwitches == 2

\* Random values that take the base branches and leave every Gauss value
\* under its range.
DrawLow == [bw_g |-> -3000, lat_r |-> 30, lat_u |-> 50000, lat_g |-> -500, pkt_r |-> 10, pkt_i |-> 5, pkt_us |-> <<>>,
            cpu_r |-> 50, cpu_u |-> 80000, cpu_g |-> -1000, mem_g |-> -5000, buf_r |-> 80, buf_u |-> 70000, buf_g |-> -2000,
            drop_r |-> 20, drop_u |-> 100000, drop_us |-> <<>>, temp_g |-> 20000]

\* Base branches, every Gauss value over its range or on a rounding tie.
DrawHigh == [bw_g |-> 200005, lat_r |-> 999, lat_u |-> 150000, lat_g |-> 10205, pkt_r |-> 999, pkt_i |-> 30, pkt_us |-> <<999, 999, 999>>,
             cpu_r |-> 999, cpu_u |-> 100000, cpu_g |-> 130000, mem_g |-> 99995, buf_r |-> 999, buf_u |-> 100000, buf_g |-> 140000,
             drop_r |-> 999, drop_u |-> 1000000, drop_us |-> <<999, 999, 999, 999>>, temp_g |-> 95000]

\* Spike branches at the lower ends of their intervals.
DrawSpikeLow == [bw_g |-> 0, lat_r |-> 0, lat_u |-> 50000, lat_g |-> 10204, pkt_r |-> 0, pkt_i |-> 5, pkt_us |-> <<>>,
                 cpu_r |-> 0, cpu_u |-> 80000, cpu_g |-> 35125, mem_g |-> 0, buf_r |-> 0, buf_u |-> 70000, buf_g |-> 30000,
                 drop_r |-> 0, drop_u |-> 100000, drop_us |-> <<>>, temp_g |-> 25200]

\* Spike branches at the upper ends of their intervals.
DrawSpikeHigh == [bw_g |-> 120004, lat_r |-> 29, lat_u |-> 150000, lat_g |-> 10204, pkt_r |-> 9, pkt_i |-> 30, pkt_us |-> <<>>,
                  cpu_r |-> 49, cpu_u |-> 100000, cpu_g |-> 35125, mem_g |-> 100000, buf_r |-> 79, buf_u |-> 100000, buf_g |-> 30000,
                  drop_r |-> 19, drop_u |-> 1000000, drop_us |-> <<>>, temp_g |-> 84001]

Draws == {DrawBase, DrawSpike, DrawLow, DrawHigh, DrawSpikeLow, DrawSpikeHigh}

\* The header record and data lines of payloads that no producer of this
\* repository writes: a bad cell, cells missing, an empty cell and a cell
\* too many, an id alone, a whole row, and an empty line.
OddHeader == <<"s", "w", "i", "t", "c", "h", "_", "i", "d", ",", "l", "a", "t", "e", "n", "c", "y", "_", "u", "s", ",", "c", "p", "u", "_", "u", "t", "i", "l", "_", "p", "c", "t">>

OddLines ==
    { <<"s", "w", "-", "0", "0", "7", ",", "N", "a", "N", "t", "e", "x", "t", ",", "4", "2", ".", "5">>,
      <<"s", "w", "-", "0", "0", "8", ",", "1", ".", "5">>,
      <<"s", "w", "-", "0", "0", "9", ",", ",", "7", ".", "2", "5", ",", "9">>,
      <<"s", "w", "-", "0", "1", "0">>,
      <<"s", "w", "-", "0", "1", "1", ",", "3", ",", "4", ".", "0", "5">>,
      <<>> }

\* Data lines of a payload.
MaxLines == 2

\* The id of a data line.
line_id(line) == IF Len(line) = 0 THEN <<>> ELSE split(line, ",")[1]

\* The first n lines of f, each followed by the line end e.
RECURSIVE lines_text(_, _, _)
lines_text(f, n, e) == IF n = 0 THEN <<>> ELSE lines_text(f, n - 1, e) \o f[n] \o e

\* Payloads of up to MaxLines data lines under the header, one line per
\* entity, each line ended by "\r\n" or by "\n".
OddPayloads ==
    { OddHeader \o e \o lines_text(f, n, e) :
        <<n, f, e>> \in {t \in (0..MaxLines) \X [1..(MaxLines + 1) -> OddLines] \X {<<"\r", "\n">>, <<"\n">>} :
            /\ \A i \in (t[1] + 1)..(MaxLines + 1) : t[2][i] = <<>>
            /\ \A i, j \in 1..t[1] : (i < j /\ t[2][i] # <<>>) => line_id(t[2][i]) # line_id(t[2][j])} }

\* -------------------------------------------------------- codec: the steps
\* One run of the codec: a snapshot is generated, serialized and parsed, or
\* a payload from elsewhere is received and parsed.

\* What a run of the codec leaves alone.
codec_frame == <<pipeline_vars, _snap, store_vars, qry, applied, stats_vars, life_vars, local>>

NoParse == [ok |-> FALSE, snap |-> NoSnapshot]

\* generate_snapshot(n_switches, prev_id), lines 24-103.
Generate ==
    /\ codec_pc = "idle"
    /\ \E n \in 0..MaxSwitches, prev_id \in 0..1, draws \in [1..MaxSwitches -> Draws] :
        /\ \A i \in (n + 1)..MaxSwitches : draws[i] = DrawBase
        /\ snapshot' = generate_snapshot(n, prev_id, 1000, draws)
    /\ codec_pc' = "generated"
    /\ payload' = <<>>
    /\ parsed' = NoParse
    /\ UNCHANGED codec_frame

\* _to_csv(_snapshot), data_server/app.py line 128.
Serialize ==
    /\ codec_pc = "generated"
    /\ payload' = getvalue(_to_csv(snapshot))
    /\ codec_pc' = "serialized"
    /\ UNCHANGED <<codec_frame, snapshot, parsed>>

\* A payload from elsewhere arrives.
Receive ==
    /\ codec_pc = "idle"
    /\ \E text \in OddPayloads : payload' = text
    /\ codec_pc' = "received"
    /\ snapshot' = <<0, 0, <<>>, <<>>>>
    /\ parsed' = NoParse
    /\ UNCHANGED codec_frame

\* self._parse_csv(r.text, r.headers), poller.py line 52.
Parse ==
    /\ codec_pc \in {"serialized", "received"}
    /\ parsed' = _parse_csv(csv_reader(payload), IF codec_pc = "serialized" THEN SnapshotHeaders(str(snapshot[1]), snapshot[2]) ELSE NoHeaders)
    /\ codec_pc' = IF codec_pc = "serialized" THEN "round_trip" ELSE "parsed"
    /\ UNCHANGED <<codec_frame, snapshot, payload>>

CodecNext ==
    \/ Generate
    \/ Serialize
    \/ Receive
    \/ Parse

CodecSpec == Init /\ [][CodecNext]_vars

\* ------------------------------------------- Poller.start and Poller.stop
\* The poller under a caller that calls start and stop in any order, one
\* call after the other; every start call has its own task.

\* What start, stop and the loops leave alone.
life_frame == <<producer_vars, req, net, task_pc, sleep_left, cycle0, failed_run, store_vars, qry, applied, stats_vars, codec_vars, local>>

\* Poller.start, lines 24-26.
PollerStart ==
    /\ stop_pc \in {"idle", "returned"}
    /\ latest < MaxStarts
    /\ _client' = "open"
    /\ _task' = "Task"
    /\ latest' = latest + 1
    /\ loops' = [loops EXCEPT ![latest + 1] = "ready"]
    /\ UNCHANGED <<life_frame, _stopping, stop_pc, _etag, fail_count, last_cycle_ms, _snap>>

\* Poller.stop, lines 29-31: the event is set; the task, if there is one,
\* is awaited.
PollerStop ==
    /\ stop_pc \in {"idle", "returned"}
    /\ _stopping' = TRUE
    /\ stop_pc' = IF _task = "Task" THEN "joining" ELSE "closing"
    /\ UNCHANGED <<life_frame, life_vars, _client, _task, _etag, fail_count, last_cycle_ms, _snap>>

\* Poller.stop, lines 31-33: the awaited task is done; aclose() is called
\* if there is a client.
PollerStopClose ==
    /\ \/ stop_pc = "joining" /\ task_joined(loops[latest])
       \/ stop_pc = "closing"
    /\ _client' = IF _client = "None" THEN "None" ELSE "closed"
    /\ stop_pc' = "returned"
    /\ UNCHANGED <<life_frame, life_vars, _task, _stopping, _etag, fail_count, last_cycle_ms, _snap>>

\* Poller._run of task t, lines 37-45: the loop test, then the request (on
\* a closed client it raises at once, and the cycle ends in the sleep).
LoopTop(t) ==
    /\ loops[t] \in {"ready", "sleeping"}
    /\ loops' = [loops EXCEPT ![t] = IF _stopping THEN "done" ELSE IF _client = "open" THEN "fetching" ELSE "sleeping"]
    /\ fail_count' = IF ~_stopping /\ _client # "open" THEN on_exception([etag |-> _etag, fail_count |-> fail_count, snap |-> _snap]).fail_count ELSE fail_count
    /\ (~_stopping /\ _client # "open") => fail_count < MaxFail
    /\ \E ms \in CycleMs : last_cycle_ms' = IF ~_stopping /\ _client # "open" THEN ms ELSE last_cycle_ms
    /\ UNCHANGED <<life_frame, latest, _client, _task, _stopping, stop_pc, _etag, _snap>>

\* Poller._run of task t, lines 46-86: from the response to the sleep.
LoopResume(t) ==
    /\ loops[t] = "fetching"
    /\ \E r \in OtherResponses \cup {TransportError} :
        /\ (r \in FailingOther \/ r.exc) => fail_count < MaxFail
        /\ LET p == run_cycle([etag |-> _etag, fail_count |-> fail_count, snap |-> _snap], r)
           IN  /\ _etag' = p.etag
               /\ fail_count' = p.fail_count
               /\ _snap' = p.snap
        /\ loops' = [loops EXCEPT ![t] = resume_pc(r)]
    /\ \E ms \in CycleMs : last_cycle_ms' = ms
    /\ UNCHANGED <<life_frame, latest, _client, _task, _stopping, stop_pc>>

LifecycleNext ==
    \/ PollerStart
    \/ PollerStop
    \/ PollerStopClose
    \/ \E t \in 1..MaxStarts : LoopTop(t)
    \/ \E t \in 1..MaxStarts : LoopResume(t)

LifecycleSpec == Init /\ [][LifecycleNext]_vars

\* ----------------------------------------------------------------- claims
\* The task has handled the response of its latest cycle (it sleeps, or
\* has left the loop after that sleep).
CycleEnded == net.stage = "consumed"

CycleUnchanged == CycleEnded /\ outcome(net.resp) = "Unchanged"

CycleUpdated == CycleEnded /\ outcome(net.resp) = "Updated"

CycleFailed == CycleEnded /\ outcome(net.resp) = "Failed"

InFlight == net.stage \in {"request", "serving"}

\* C1: when a cycle ends Unchanged (304), fail_count is 0, whatever it was
\* before the cycle.
C1_UnchangedResetsFailCount == CycleUnchanged => fail_count = 0

\* C2: a Failed cycle ends with fail_count one above its value at the start
\* of the cycle, an Updated cycle ends with fail_count = 0, and fail_count
\* is always the number of Failed cycles since the last Updated one.
C2_FailCountCountsFailedCycles ==
    /\ CycleFailed => fail_count = cycle0.fail_count + 1
    /\ CycleUpdated => fail_count = 0
    /\ fail_count = failed_run

\* A second failure in a row has been counted.
C2_Witness == CycleFailed /\ cycle0.fail_count = 1 /\ fail_count = 2

\* C3: a Failed cycle leaves the store's slot and the poller's token as
\* they were when the cycle began.
C3_FailedCycleKeepsStoreAndToken == CycleFailed => (_snap = cycle0.snap /\ _etag = cycle0.etag)

\* A 200 whose payload does not parse has been handled with a snapshot in
\* the store.
C3_Witness == CycleFailed /\ ~net.resp.exc /\ net.resp.status = 200 /\ _snap # NoSnapshot /\ _etag # None

\* The validator of response r as the next request carries it: no header
\* when r has no validator (or an empty one).
CarriedToken(r) == IF Truthy(HeadersGet(r.headers, "ETag", None)) THEN HeadersGet(r.headers, "ETag", None) ELSE None

\* C4: when a cycle ends Updated, the store holds the snapshot parsed from
\* the response and the token is the response's ETag; and the request that
\* the loop makes next carries that token.
C4_UpdatedCycleAppliesSnapshotAndToken ==
    /\ [](CycleUpdated => (_snap = _parse_csv(net.resp.text, net.resp.headers).snap /\ _etag = HeadersGet(net.resp.headers, "ETag", None)))
    /\ [][(CycleUpdated /\ net'.stage = "request") => HeadersGet(net'.headers, "If-None-Match", None) = CarriedToken(net.resp)]_vars

\* An Updated cycle has replaced an earlier snapshot of the store by the
\* producer's current one.
C4_Witness == CycleUpdated /\ cycle0.snap # NoSnapshot /\ cycle0.snap # _snap /\ _etag = str(_snapshot[1])

\* C5: a read that draws no injected failure answers 304 without a body
\* exactly when the If-None-Match token is the string of the current
\* version, and otherwise 200 with the current snapshot and its version as
\* the ETag.
C5_ConditionalRead ==
    [][\A h \in Conns : (req[h].pc = "locked" /\ req'[h].pc = "done") =>
        LET r == req'[h].resp
        IN  /\ (r.status = 304) <=> (req[h].inm = str(_snapshot[1]))
            /\ r.status = 304 => r.text = <<>>
            /\ r.status # 304 => (r.status = 200 /\ r.text = _to_csv(_snapshot) /\ HeadersGet(r.headers, "ETag", None) = str(_snapshot[1]))]_vars

\* One read has answered 304 to the current version while another has
\* answered an empty token with the snapshot.
C5_Witness ==
    /\ req[1].pc = "done" /\ req[1].resp.status = 304 /\ req[1].inm = str(_snapshot[1])
    /\ req[2].pc = "done" /\ req[2].resp.status = 200 /\ req[2].inm = <<>>

\* C6 as stated: a cycle whose token was the producer's current version
\* ends Unchanged, and an Unchanged cycle leaves the store and the token as
\* they were.
C6_MatchingTokenIsUnchanged ==
    /\ (CycleEnded /\ net.match) => outcome(net.resp) = "Unchanged"
    /\ CycleUnchanged => (_snap = cycle0.snap /\ _etag = cycle0.etag)

\* C6 amended: a cycle whose token was the producer's current version and
\* that received a response other than the injected 500 ends Unchanged, and
\* an Unchanged cycle leaves the store and the token as they were.
C6_AnsweredMatchingTokenIsUnchanged ==
    /\ (CycleEnded /\ net.match /\ ~net.resp.exc /\ net.resp.status # 500) => outcome(net.resp) = "Unchanged"
    /\ CycleUnchanged => (_snap = cycle0.snap /\ _etag = cycle0.etag)

\* The producer has answered 304 to its current version and the cycle has
\* ended with a snapshot in the store.
C6_Witness == CycleUnchanged /\ net.match /\ _snap # NoSnapshot /\ _etag = str(_snapshot[1])

\* C7: no outcome of a cycle ends the loop: every cycle ends in the wait of
\* one period, the wait is left only when the period is over, for the next
\* request unless stop has been requested, the task is done only after
\* stop was requested, and unless stop is requested (or the task never
\* started) the loop starts a request again and again.
C7_FailureNeverEndsLoop ==
    /\ [](task_pc = "done" => _stopping)
    /\ [][task_pc = "fetching" => (task_pc' = "fetching" \/ (task_pc' = "sleeping" /\ sleep_left' = PollTicks))]_vars
    /\ [][(task_pc = "sleeping" /\ task_pc' # "sleeping") => (sleep_left = 0 /\ task_pc' = (IF _stopping THEN "done" ELSE "fetching"))]_vars
    /\ [][(_stopping => _stopping') /\ (task_pc # "none" => task_pc' # "none")]_vars
    /\ <>[](_stopping \/ task_pc = "none") \/ []<><<RunLoopTop>>_vars

\* After two Failed cycles in a row the loop has made its next request.
C7_Witness == InFlight /\ cycle0.fail_count = 2 /\ ~_stopping

\* C8: when stop has been requested and the task is in the wait that ends
\* a cycle, the wait is over (the task can leave it at once): no rest of
\* the period is slept out.
C8_StopEndsWait == (_stopping /\ task_pc = "sleeping") => sleep_done(sleep_left)

\* C9: a requested stop stays requested and after it no request is
\* started; the client is closed only when the task is done, so no request
\* is in flight on a closed client; stop has returned only after both; and
\* once stop is requested the task ends and stop returns.
C9_CleanShutdown ==
    /\ [][_stopping => (_stopping' /\ ~(task_pc # "fetching" /\ task_pc' = "fetching"))]_vars
    /\ [](_client = "closed" => task_pc = "done")
    /\ [](InFlight => _client = "open")
    /\ [](stop_pc = "returned" => (task_pc = "done" /\ _client = "closed"))
    /\ <>[](~_stopping) \/ []<>(task_pc = "done" /\ stop_pc = "returned")

\* stop has returned after a cycle of the task.
C9_Witness == stop_pc = "returned" /\ net.stage = "consumed" /\ _client = "closed"

\* C10: every replacement of the published snapshot installs the version
\* of the replaced one plus 1.
C10_VersionStepsByOne == [][_snapshot' # _snapshot => _snapshot'[1] = _snapshot[1] + 1]_vars

\* A generator thread has replaced the snapshot of create_app while a
\* request waits for the lock.
C10_Witness == n_apps = 1 /\ _snapshot[1] = 2 /\ \E h \in Conns : req[h].pc = "accepted"

\* C11: the slot is absent exactly until the first set completes and then
\* holds the argument of the latest completed set; get returns the slot and
\* age_ms signals absence exactly when get does; no step empties the slot.
C11_SingleSlotLastWriteWins ==
    /\ [](_snap = last_set)
    /\ [](\A r \in Readers : (getter[r].pc = "returned" /\ getter[r].op = "age_ms") => (getter[r].age.none <=> getter[r].s = NoSnapshot))
    /\ [][\A r \in Readers : (getter[r].pc = "locked" /\ getter'[r].pc = "returned") => getter'[r].s = last_set]_vars
    /\ [][_snap # NoSnapshot => _snap' # NoSnapshot]_vars

\* A reader has obtained the second snapshot set, while another still
\* holds the absence it read before the first set.
C11_Witness ==
    /\ getter[1].pc = "returned" /\ getter[1].s # NoSnapshot /\ getter[1].s = last_set /\ Cardinality(all_set) >= 2
    /\ getter[2].pc = "returned" /\ getter[2].s = NoSnapshot /\ getter[2].op = "age_ms"

\* C12: under every interleaving of the readers with the writer, a snapshot
\* a reader has obtained equals, in its metadata and its rows together, one
\* snapshot that was passed to set, never the metadata of one with the rows
\* of another; and so does the slot the readers read.
C12_ReadersSeeWholeSnapshots ==
    /\ \A r \in Readers : getter[r].s # NoSnapshot => \E w \in all_set : getter[r].s.meta = w.meta /\ getter[r].s.data = w.data
    /\ _snap # NoSnapshot => \E w \in all_set : _snap.meta = w.meta /\ _snap.data = w.data

\* One reader holds the previous snapshot and the other the newly applied
\* one, of different rows, while the writer is inside a third set.
C12_Witness ==
    /\ getter[1].pc = "returned" /\ getter[2].pc = "returned"
    /\ getter[1].s # NoSnapshot /\ getter[2].s # NoSnapshot
    /\ getter[1].s.data # getter[2].s.data /\ getter[1].s.meta # getter[2].s.meta
    /\ getter[2].s = _snap
    /\ setter.pc = "locked" /\ setter.snap # _snap

\* The response q is what GetMetric owes for some parameters on snapshot s:
\* 404 for an entity or a metric that s does not have, else the value s
\* holds for them, under the id of s.
ServedGetMetric(q, s) ==
    \E sw \in QuerySwitches, m \in QueryMetrics :
        IF sw \notin DictKeys(s.data) \/ m \notin {s.meta.fields[k] : k \in 1..Len(s.meta.fields)}
        THEN q.status = 404
        ELSE /\ q.status = 200
             /\ q.body.switch_id = sw /\ q.body.metric = m
             /\ q.body.value = DictGet(s.data, sw)[m]
             /\ q.body.snapshot_id = s.meta.snapshot_id

\* The response q is what ListMetrics owes on snapshot s.
ServedListMetrics(q, s) ==
    /\ q.status = 200
    /\ q.body.snapshot_id = s.meta.snapshot_id
    /\ q.body.fields = s.meta.fields
    /\ q.body.items = s.data

\* C13: a query is answered 503 exactly when no cycle has ended Updated so
\* far; after that GetMetric and ListMetrics answer from the snapshot of the
\* latest Updated cycle, whatever number of Failed cycles came since, and
\* GetMetric answers 404 for an entity or a metric that snapshot lacks.
C13_UnavailableOnlyBeforeFirstUpdate ==
    /\ [][(GetMetric \/ ListMetrics) => (qry'.status = 503 <=> applied = NoSnapshot)]_vars
    /\ [][(GetMetric /\ applied # NoSnapshot) => ServedGetMetric(qry', applied)]_vars
    /\ [][(ListMetrics /\ applied # NoSnapshot) => ServedListMetrics(qry', applied)]_vars
    /\ [](qry.status \in {0, 200, 404, 503})

\* A query answered 200 after MaxFail Failed cycles in a row that followed
\* an Updated one.
C13_Witness ==
    /\ qry.status = 200
    /\ qry.failed_run = MaxFail
    /\ applied # NoSnapshot

\* The last n items of the sequence h.
LastOf(h, n) == SubSeq(h, Len(h) - n + 1, Len(h))

\* C14: for every key the window is the last min(k, N) samples added for
\* the key, in arrival order (k adds for the key, N the capacity), so the
\* oldest sample leaves first and the count never exceeds N; an add for one
\* key leaves every other key's window as it was.
C14_WindowIsLastNSamples ==
    /\ [](\A key \in StatKeys : map_get(map, key) = LastOf(added[key], Min(Len(added[key]), capacity)))
    /\ [](\A key \in StatKeys : percentiles(map_get(map, key)).count <= capacity)
    /\ [][\A key \in StatKeys : Add(key) => \A other \in StatKeys \ {key} : map_get(map', other) = map_get(map, other)]_vars

\* A key has had more adds than the capacity, so its oldest sample is
\* gone, while the other key holds a sample too.
C14_Witness ==
    /\ capacity > 0
    /\ \E key \in StatKeys :
        /\ Len(added[key]) > capacity
        /\ added[key][1] # added[key][2]
        /\ map_get(map, key) # <<>>
        /\ \E other \in StatKeys \ {key} : map_get(map, other) # <<>>

\* clamp(ceil(p * n) - 1, 0, n - 1) for p in hundredths, with the ceiling
\* taken as the least integer c such that c >= p * n / 100.
RuleIndex(p, n) ==
    LET c == CHOOSE c \in 0..n : 100 * c >= p * n /\ 100 * (c - 1) < p * n
    IN  Max(0, Min(n - 1, c - 1))

\* v is the item at index idx (from 0) of the samples of w in ascending
\* order: at most idx samples are below it and more than idx are not above.
AtRank(w, idx, v) ==
    /\ \E i \in 1..Len(w) : w[i] = v
    /\ Cardinality({j \in 1..Len(w) : w[j] < v}) <= idx
    /\ Cardinality({j \in 1..Len(w) : w[j] <= v}) > idx

\* res is what the index rule gives for the window w.
FollowsRule(w, res) ==
    IF Len(w) = 0 THEN res = ZeroPercentiles
    ELSE /\ AtRank(w, RuleIndex(50, Len(w)), res.p50)
         /\ AtRank(w, RuleIndex(95, Len(w)), res.p95)
         /\ AtRank(w, RuleIndex(99, Len(w)), res.p99)
         /\ AtRank(w, Len(w) - 1, res.max)
         /\ res.count = Len(w)

\* The deque of a key after add(key, v) for v = lo, ..., hi in this order
\* on an object of capacity cap whose deque for the key was dq.
RECURSIVE AddRange(_, _, _, _)
AddRange(dq, cap, lo, hi) ==
    IF lo > hi THEN dq
    ELSE IF lo = hi THEN deque_append(dq, lo, cap)
    ELSE AddRange(AddRange(dq, cap, lo, (lo + hi) \div 2), cap, (lo + hi) \div 2 + 1, hi)

\* add("q", v) for v in 1..100 on RollingStats(capacity=100), twenty adds
\* at a time.
Added20 == AddRange(<<>>, 100, 1, 20)

Added40 == AddRange(Added20, 100, 21, 40)

Added60 == AddRange(Added40, 100, 41, 60)

Added80 == AddRange(Added60, 100, 61, 80)

Added100 == AddRange(Added80, 100, 81, 100)

Scenario100 == percentiles(Added100)

\* C15: percentiles returns zeros with count 0 for a key that is empty or
\* unknown, and else the items of the ascending order at index
\* clamp(ceil(p*n) - 1, 0, n - 1) for p50, p95, p99, the greatest item as max
\* and n as count; one sample gives that sample four times; the samples
\* 1..100 give p50 = 50, max = 100, count = 100; the call leaves the
\* window as it was.
C15_PercentilesFollowIndexRule ==
    /\ FollowsRule(pct.before, pct.res)
    /\ pct.after = pct.before
    /\ \A key \in StatKeys : FollowsRule(map_get(map, key), percentiles(map_get(map, key)))
    /\ Len(pct.before) = 1 => (pct.res.p50 = pct.before[1] /\ pct.res.p95 = pct.before[1] /\ pct.res.p99 = pct.before[1] /\ pct.res.max = pct.before[1] /\ pct.res.count = 1)
    /\ Scenario100.p50 = 50 /\ Scenario100.max = 100 /\ Scenario100.count = 100

\* percentiles has answered for a window that is not in ascending order,
\* with p50 below p95, and the window is still in arrival order.
C15_Witness ==
    /\ pct.key \in StatKeys
    /\ pct.res.count >= 2
    /\ pct.res.p50 < pct.res.p95
    /\ pct.before[1] > pct.before[2]
    /\ map_get(map, pct.key) = pct.before

\* C16: for a key that is not empty, p50 <= p95 <= p99 <= max, and each of
\* the four is a sample of the window.
C16_PercentilesOrdered ==
    pct.before # <<>> =>
        /\ pct.res.p50 <= pct.res.p95 /\ pct.res.p95 <= pct.res.p99 /\ pct.res.p99 <= pct.res.max
        /\ \A v \in {pct.res.p50, pct.res.p95, pct.res.p99, pct.res.max} : \E i \in 1..Len(pct.before) : pct.before[i] = v

\* percentiles has answered for a window whose first sample is its
\* greatest, with p50 below p95 = max.
C16_Witness ==
    /\ pct.key \in StatKeys
    /\ pct.res.count >= 2
    /\ pct.res.p50 < pct.res.max
    /\ pct.res.p95 = pct.res.max
    /\ pct.before[1] = pct.res.max

\* C17: a generated snapshot that went through _to_csv and _parse_csv comes
\* back with the same fields in the same order, the same set of entity ids,
\* and for every entity and field the value it had (values are kept in
\* hundredths, so equal values are equal to two decimals).
C17_CodecRoundTrip ==
    codec_pc = "round_trip" =>
        /\ parsed.ok
        /\ parsed.snap.meta.fields = snapshot[3]
        /\ DictKeys(parsed.snap.data) = DictKeys(snapshot[4])
        /\ Len(parsed.snap.data) = Len(snapshot[4])
        /\ \A sw \in DictKeys(snapshot[4]) : \A k \in 1..Len(snapshot[3]) :
                DictGet(parsed.snap.data, sw)[snapshot[3][k]] = DictGet(snapshot[4], sw)[snapshot[3][k]]

\* A snapshot of MaxSwitches switches, drawn differently, with values of
\* one and of two decimals and whole ones, has made the round trip.
C17_Witness ==
    /\ codec_pc = "round_trip"
    /\ Len(snapshot[4]) = MaxSwitches
    /\ snapshot[4][1][2] # snapshot[4][2][2]
    /\ \E k \in 1..8 : snapshot[4][1][2][snapshot[3][k]] % 10 # 0
    /\ \E k \in 1..8 : snapshot[4][1][2][snapshot[3][k]] % 100 = 0

\* The data lines of the payload that are not empty.
DataLines == {k \in 2..Len(lines_of(payload)) : Len(lines_of(payload)[k]) > 0}

\* C18: under a valid header the parse succeeds whatever the data rows: each
\* row that is not empty gives an entry under its id with a value for every
\* field of the header, 0.0 where the row has no cell for the field or the
\* cell is no number and the cell's value elsewhere; an empty row gives no
\* entry and no error.
C18_MalformedCellsDefaultToZero ==
    codec_pc = "parsed" =>
        LET header == split(lines_of(payload)[1], ",")
        IN  /\ parsed.ok
            /\ parsed.snap.meta.fields = Tail(header)
            /\ Len(parsed.snap.data) = Cardinality(DataLines)
            /\ \A k \in DataLines :
                    LET cells == split(lines_of(payload)[k], ",")
                    IN  /\ cells[1] \in DictKeys(parsed.snap.data)
                        /\ DOMAIN DictGet(parsed.snap.data, cells[1]) = {header[j] : j \in 2..Len(header)}
                        /\ \A j \in 2..Len(header) :
                                DictGet(parsed.snap.data, cells[1])[header[j]] =
                                    IF j <= Len(cells) /\ float(cells[j]).ok THEN float(cells[j]).val ELSE 0

\* The row with the cell NaNtext was parsed to 0.0 for that cell and 42.5
\* for the next, and the empty line after it gave no entry.
C18_Witness ==
    /\ codec_pc = "parsed"
    /\ Len(lines_of(payload)) = 3
    /\ Len(lines_of(payload)[3]) = 0
    /\ Len(parsed.snap.data) = 1
    /\ parsed.snap.data[1][1] = <<"s", "w", "-", "0", "0", "7">>
    /\ parsed.snap.data[1][2][latency_us] = 0
    /\ parsed.snap.data[1][2][cpu_util_pct] = 4250

\* C19: every value of a generated snapshot lies in the range of its
\* metric, after rounding and whichever branch drew it (values in
\* hundredths): bandwidth >= 0, latency >= 1, packet_errors >= 0 and whole,
\* cpu, mem and buffer occupancy in [0, 100], egress_drops >= 0,
\* temperature in [30, 90]; every row has exactly the 8 fields, listed in
\* one order at every generation.
C19_GeneratedValuesInRange ==
    codec_pc \in {"generated", "serialized", "round_trip"} =>
        /\ snapshot[3] = <<bandwidth_gbps, latency_us, packet_errors, cpu_util_pct, mem_util_pct, buffer_occupancy_pct, egress_drops_per_s, temperature_c>>
        /\ Cardinality({snapshot[3][k] : k \in 1..Len(snapshot[3])}) = 8
        /\ \A i \in 1..Len(snapshot[4]) :
                LET row == snapshot[4][i][2]
                IN  /\ DOMAIN row = {snapshot[3][k] : k \in 1..Len(snapshot[3])}
                    /\ row[bandwidth_gbps] >= 0
                    /\ row[latency_us] >= 100
                    /\ row[packet_errors] >= 0 /\ row[packet_errors] % 100 = 0
                    /\ row[cpu_util_pct] >= 0 /\ row[cpu_util_pct] <= 10000
                    /\ row[mem_util_pct] >= 0 /\ row[mem_util_pct] <= 10000
                    /\ row[buffer_occupancy_pct] >= 0 /\ row[buffer_occupancy_pct] <= 10000
                    /\ row[egress_drops_per_s] >= 0
                    /\ row[temperature_c] >= 3000 /\ row[temperature_c] <= 9000

\* A snapshot with one row from the spike branches and one whose Gauss
\* values were all over their ranges: cpu at 100 by the clip, temperature at
\* 90, memory rounded up to 100.
C19_Witness ==
    /\ codec_pc = "generated"
    /\ Len(snapshot[4]) = 2
    /\ snapshot[4][1][2][latency_us] >= 5000
    /\ snapshot[4][1][2][packet_errors] >= 500
    /\ snapshot[4][2][2][cpu_util_pct] = 10000
    /\ snapshot[4][2][2][mem_util_pct] = 10000
    /\ snapshot[4][2][2][temperature_c] = 9000

\* The tasks that have not ended.
ActiveLoops == {t \in 1..MaxStarts : loops[t] \in {"ready", "fetching", "sleeping"}}

\* C20: after any sequence of start and stop calls at most one loop is
\* active and at most one fetch is in flight.
C20_OneLoopOneFetch ==
    /\ Cardinality(ActiveLoops) <= 1
    /\ Cardinality({t \in 1..MaxStarts : loops[t] = "fetching"}) <= 1

\* C21: every 200 response of counters is made of one snapshot, whatever
\* the generator threads do meanwhile: its ETag, its X-Snapshot-Ts and its
\* body are the id, the timestamp and the CSV of the snapshot the handler
\* read at line 116, which is a generated one; and a 304 response carries
\* the id and the timestamp of the snapshot whose id the request's token
\* was compared with and equals.
C21_ResponseFromOneSnapshot ==
    \A h \in Conns :
        (req[h].pc = "done" /\ ~req[h].resp.exc /\ req[h].resp.status \in {200, 304}) =>
            /\ local[h].s \in ProducerSnapshots
            /\ req[h].resp.headers = SnapshotHeaders(str(local[h].s[1]), local[h].s[2])
            /\ req[h].resp.status = 200 => req[h].resp.text = _to_csv(local[h].s)
            /\ req[h].resp.status = 304 => (req[h].resp.text = <<>> /\ req[h].inm = str(local[h].s[1]))

\* A 200 response is ready, of a snapshot the generator has replaced since
\* by one with another body, while another request is inside the with
\* block.
C21_Witness ==
    \E h, k \in Conns :
        /\ req[h].pc = "done"
        /\ req[h].resp.status = 200
        /\ _snapshot[1] = local[h].s[1] + 1
        /\ _to_csv(_snapshot) # req[h].resp.text
        /\ req[k].pc = "read"

\* The poller holds a last-seen token.
HoldsToken == Truthy(_etag)

\* The request of the running cycle carries a token.
SentToken == net.stage \in {"request", "serving", "response"} /\ "If-None-Match" \in DOMAIN net.headers

\* C22: between the steps of the poller (where a query handler or the next
\* cycle runs), a token held by the poller is the snapshot_id of the
\* snapshot in the store, which is then not empty; a conditional fetch
\* carries the snapshot_id of the stored snapshot; and after a cycle that
\* ended Unchanged on a 304 naming a version, the store holds that version.
C22_TokenNamesStoredSnapshot ==
    /\ HoldsToken => (_snap # NoSnapshot /\ _snap.meta.snapshot_id = _etag)
    /\ SentToken => (_snap # NoSnapshot /\ _snap.meta.snapshot_id = net.headers["If-None-Match"])
    /\ (CycleUnchanged /\ "ETag" \in DOMAIN net.resp.headers) => (_snap # NoSnapshot /\ _snap.meta.snapshot_id = net.resp.headers["ETag"])

\* A conditional fetch is on its way with the token of the stored
\* snapshot, version 1, after a cycle that ended Unchanged, while the
\* producer has gone on to version 2.
C22_Witness ==
    /\ SentToken
    /\ net.headers["If-None-Match"] = <<"1">>
    /\ HoldsToken
    /\ _snap # NoSnapshot
    /\ _snapshot[1] = 2
    /\ failed_run = 0
    /\ cycle0.snap = _snap

====
